---- MODULE Spec2Model ----
(***************************************************************************)
(* A model of utils/browser.py: the WAF cookie cache with its asyncio lock *)
(* and the sign-in strategies (cookie replay, credential login, OAuth over *)
(* an existing browser, HTTP-only replay).                                 *)
(*                                                                         *)
(* CacheSpec    : concurrent callers of get_cached_waf_cookies and         *)
(*                clear_waf_cookie_cache.                                  *)
(* StrategySpec : one invocation of a strategy, await by await, with a     *)
(*                fault possible at every awaited call.                    *)
(***************************************************************************)
EXTENDS Integers, Sequences, FiniteSets, TLC

(***************************************************************************)
(* Bounds of the model.                                                    *)
(***************************************************************************)
\* number of tasks that call get_cached_waf_cookies at the same time
NumCallers == 2

\* number of calls of get_cached_waf_cookies in a run
MaxCalls == 3

\* number of requests the page sends during one invocation
MaxRequests == 1
\* the requests a request listener is called with
MaxObserved == 4

\* number of strategy invocations that run at the same time
NumInvocations == 2

\* number of the last object that the concurrent invocations may create
MaxObjects == 5

Callers == 1..NumCallers

\* domains used as cache keys
Domains == {"d1", "d2"}

\* names of WAF cookies a caller may require, and one cookie that is none
WafNames == {"waf_a", "waf_b"}
JarNames == WafNames \cup {"sid"}

\* cookie values
Values == {"x"}

\* the required_cookies arguments the callers pass
Reqs == {{}, {"waf_a"}, {"waf_a", "waf_b"}}

\* a long required_cookies argument, with names no jar holds
ManyRequired == WafNames \cup {"waf_c", "waf_d", "waf_e", "waf_f", "waf_g",
                               "waf_h", "waf_i", "waf_j"}

(***************************************************************************)
(* Cookie maps: Python dicts from cookie name to value.                    *)
(***************************************************************************)
\* dict[str, str] over the given names
Dicts(names) == UNION {[S -> Values] : S \in SUBSET names}

\* the cookie jar of a browser context, as page.context.cookies() lists it
Jars == Dicts(JarNames)

\* {} of Python
EmptyDict == [n \in {} |-> "x"]

\* A value that is a dict or one of a few markers, in one shape so that any
\* two of them compare.
Some(m) == [tag |-> "dict", map |-> m]

Marker(t) == [tag |-> t, map |-> EmptyDict]

\* a domain without an entry in _waf_cookie_cache
NoEntry == Marker("NoEntry")

\* the return value None
None == Marker("None")

\* the marker of a call that ended by raising
Raised == Marker("Raised")

\* the marker of an extraction or a call that has not ended
Pending == Marker("Pending")

IsDict(v) == v.tag = "dict"

\* A harvest that keeps every cookie of the jar.
get_all_cookies(cookies, required) == cookies

\* _get_waf_cookies: the cookies of the jar whose name is required,
\* {c['name']: c['value'] for c in cookies if c['name'] in required_cookies}
get_waf_cookies(cookies, required) ==
    [n \in (DOMAIN cookies) \cap required |-> cookies[n]]

\* all(c in m for c in required_cookies)
HasAll(m, required) == required \subseteq DOMAIN m

(***************************************************************************)
(* Strings that the code inspects, as sequences of characters.             *)
(***************************************************************************)
\* str.lower() on one character (the letters the URLs below use)
LowerChar(ch) ==
    CASE ch = "L" -> "l"
      [] ch = "O" -> "o"
      [] ch = "G" -> "g"
      [] ch = "I" -> "i"
      [] ch = "N" -> "n"
      [] OTHER -> ch

\* str.lower()
Lower(str) == [i \in 1..Len(str) |-> LowerChar(str[i])]

\* `sub in str`
Contains(str, sub) ==
    \E i \in 1..(Len(str) - Len(sub) + 1) :
        SubSeq(str, i, i + Len(sub) - 1) = sub

\* the literals '/login', 'login' and '/api/'
SlashLogin == <<"/", "l", "o", "g", "i", "n">>

LoginWord == <<"l", "o", "g", "i", "n">>

SlashApi == <<"/", "a", "p", "i", "/">>

\* URLs a page or a response may end at
Urls == { <<"/", "l", "o", "g", "i", "n">>,
          <<"/", "L", "o", "g", "i", "n">>,
          <<"/", "c", "o", "n", "s", "o", "l", "e">>,
          <<"/", "?", "r", "=", "l", "o", "g", "i", "n">>,
          <<"/">> }

\* URLs of the requests a page sends
RequestUrls == { <<"/", "a", "p", "i", "/", "u">>, <<"/", "a", "p", "i", "s">> }

Methods == {"GET", "POST"}

\* status codes of HTTP responses
Statuses == {200, 401}

\* lengths of str(e) of the exceptions that awaited calls raise
MsgLens == {0, 12, 150}

\* OAuth providers a caller may name ("other" is none of the three listed)
Providers == {"github", "google", "linuxdo", "other"}

Min(a, b) == IF a < b THEN a ELSE b

(***************************************************************************)
(* BrowserResult.                                                          *)
(***************************************************************************)
\* error=None
NoError == [kind |-> "None", len |-> 0]

\* str(e)[:100]
ErrorMsgLimit == 100

\* error_text[:50]
ErrorTextLimit == 50

\* error_msg = str(e)[:100]
ExceptionError(msg_len) == [kind |-> "exception", len |-> Min(msg_len, ErrorMsgLimit)]

BrowserResult(success, cookies, calls, error) ==
    [success |-> success, waf_cookies |-> cookies, api_calls |-> calls,
     error |-> error]

\* the result of the `except Exception as e` handlers of the browser strategies
ExceptionResult(msg_len) ==
    BrowserResult(FALSE, EmptyDict, << >>, ExceptionError(msg_len))

\* What is on its way out of the function while `finally` runs: nothing yet,
\* a value of a return statement, or an exception.
NoPending == [kind |-> "none", res |-> BrowserResult(FALSE, EmptyDict, << >>, NoError)]

PendingReturn(res) == [kind |-> "return", res |-> res]

PendingRaise == [kind |-> "raise", res |-> BrowserResult(FALSE, EmptyDict, << >>, NoError)]


VARIABLES
    \* ---- the cache (module globals) ----
    waf_cookie_cache,   \* _waf_cookie_cache: domain -> dict or NoEntry
    lock_holder,        \* _cache_lock: the caller inside the region, or 0
    lock_waiters,       \* _cache_lock: the FIFO queue of waiting callers
    \* ---- the callers of get_cached_waf_cookies ----
    cpc,                \* position of each caller
    cdom,               \* its domain argument
    creq,               \* its required_cookies argument
    cgot,               \* what its browser extraction returned
    cret,               \* what its call returned
    \* ---- history of the cache, for the properties ----
    did_extract,        \* the call started _get_waf_cookies_from_browser
    active_at_start,    \* the calls in progress when this call began
    cleared,            \* clear_waf_cookie_cache has run
    after_clear,        \* domain -> emptied by a clear, no call for it since
    first_after_clear,  \* the call is the first for its domain after a clear
    ncalls,             \* the calls begun so far
    start_no,           \* the number of each call in the order they began
    \* ---- one invocation of a strategy: its arguments ----
    strategy,           \* which function runs
    required_cookies,   \* its required_cookies argument
    oauth_provider,     \* its oauth_provider argument
    \* ---- its position and local variables ----
    pc,                 \* the await it stands at
    cdp_available,      \* result of _check_chrome_debug_port()
    use_cdp,            \* use_cdp
    context,            \* context: "None" or "bound"
    temp_dir,           \* temp_dir: "None" or "bound"
    page,               \* page: "None" or "bound"
    waf_cookies,        \* waf_cookies
    api_calls,          \* api_calls
    sel_i,              \* index of the selector a loop is at
    current_url,        \* page.url / str(response.url) as last read
    pending,            \* the return value or exception on its way out
    \* ---- the browser, the disk and the HTTP client ----
    ctx_state,          \* the browser context: "none", "open", "closed"
    ctx_origin,         \* "launched", "cdp_existing", "cdp_created"
    page_state,         \* the page: "none", "open", "closed"
    dir_state,          \* the temporary profile: "none", "exists", "removed"
    client_state,       \* the httpx client: "none", "open", "closed"
    jar,                \* the cookies of the browser context
    listening,          \* page.on('request', ...) is attached
    \* ---- history of the invocation, for the properties ----
    closes,             \* the release calls made, in order
    faults,             \* the steps whose exception no inner handler ignored
    nreq,               \* requests the page has sent
    seen,               \* the requests the listener was called with, in order
    trail,              \* the positions the invocation has reached, in order
    outcome,            \* "running", "returned", "raised"
    result,             \* the value returned
    \* ---- the sessions of concurrent invocations ----
    inv_pc,             \* "idle", "held" (the session is in use), "over"
    inv_fn,             \* the function each invocation runs
    inv_context,        \* the browser context it uses
    inv_dir,            \* the profile directory it uses
    inv_client,         \* the HTTP client it uses
    next_obj            \* the number of the next object created

cache_vars == <<waf_cookie_cache, lock_holder, lock_waiters, cpc, cdom, creq,
                cgot, cret, did_extract, active_at_start, cleared, after_clear,
                first_after_clear, ncalls, start_no>>

strat_vars == <<strategy, required_cookies, oauth_provider, pc, cdp_available,
                use_cdp, context, temp_dir, page, waf_cookies, api_calls, sel_i,
                current_url, pending, ctx_state, ctx_origin, page_state,
                dir_state, client_state, jar, listening, closes, faults, nreq, seen,
                trail, outcome, result>>

sess_vars == <<inv_pc, inv_fn, inv_context, inv_dir, inv_client, next_obj>>

vars == <<cache_vars, strat_vars, sess_vars>>

(***************************************************************************)
(* The WAF cookie cache.                                                   *)
(***************************************************************************)
CacheInit ==
    /\ waf_cookie_cache = [d \in Domains |-> NoEntry]
    /\ lock_holder = 0
    /\ lock_waiters = << >>
    /\ cpc = [c \in Callers |-> "idle"]
    /\ cdom = [c \in Callers |-> "d1"]
    /\ creq = [c \in Callers |-> {}]
    /\ cgot = [c \in Callers |-> Pending]
    /\ cret = [c \in Callers |-> Pending]
    /\ did_extract = [c \in Callers |-> FALSE]
    /\ active_at_start = [c \in Callers |-> {}]
    /\ cleared = FALSE
    /\ after_clear = [d \in Domains |-> FALSE]
    /\ first_after_clear = [c \in Callers |-> FALSE]
    /\ ncalls = 0
    /\ start_no = [c \in Callers |-> 0]

StrategyInit ==
    /\ strategy = "none"
    /\ required_cookies = {}
    /\ oauth_provider = "github"
    /\ pc = "idle"
    /\ cdp_available = FALSE
    /\ use_cdp = FALSE
    /\ context = "None"
    /\ temp_dir = "None"
    /\ page = "None"
    /\ waf_cookies = EmptyDict
    /\ api_calls = << >>
    /\ sel_i = 0
    /\ current_url = << >>
    /\ pending = NoPending
    /\ ctx_state = "none"
    /\ ctx_origin = "none"
    /\ page_state = "none"
    /\ dir_state = "none"
    /\ client_state = "none"
    /\ jar = EmptyDict
    /\ listening = FALSE
    /\ closes = << >>
    /\ faults = {}
    /\ trail = << >>
    /\ nreq = 0
    /\ seen = << >>
    /\ outcome = "running"
    /\ result = NoPending.res

\* context = None, temp_dir = None: no object
NoObject == 0

\* browser.contexts[0] of the browser behind CHROME_DEBUG_URL
DefaultContext == 1

\* PLAYWRIGHT_USER_DATA_DIR
ProfileDir == 1

\* the least number of a newly created object
FirstFresh == 2

Invocations == 1..NumInvocations

SessionInit ==
    /\ inv_pc = [i \in Invocations |-> "idle"]
    /\ inv_fn = [i \in Invocations |-> "none"]
    /\ inv_context = [i \in Invocations |-> NoObject]
    /\ inv_dir = [i \in Invocations |-> NoObject]
    /\ inv_client = [i \in Invocations |-> NoObject]
    /\ next_obj = FirstFresh

Init == CacheInit /\ StrategyInit /\ SessionInit

\* A cache check that is content with any entry of the domain.
CacheHitAnyEntry(domain, required) == waf_cookie_cache[domain] # NoEntry

\* A cache check that never hits.
CacheHitNever(domain, required) == FALSE

\* `domain in _waf_cookie_cache` and the entry holds every required name
CacheHit(domain, required) ==
    /\ waf_cookie_cache[domain] # NoEntry
    /\ HasAll(waf_cookie_cache[domain].map, required)

\* A store that checks only that the dict is not empty.
ShouldStoreAnyNonEmpty(cookies, required) == cookies # EmptyDict

\* `waf_cookies and all(c in waf_cookies for c in required_cookies)`
ShouldStore(cookies, required) ==
    /\ cookies # EmptyDict
    /\ HasAll(cookies, required)

\* A lock that every caller finds free.
LockAlwaysFree == TRUE

\* asyncio.Lock.acquire returns at once when the lock is free and nobody waits
LockFree == lock_holder = 0 /\ lock_waiters = << >>

\* The body of `async with _cache_lock` up to its first await: the cache
\* check, and on a hit the return (which releases the lock), on a miss the
\* start of the browser extraction with the lock held.
CheckCache(c, domain, required) ==
    IF CacheHit(domain, required)
    THEN /\ cret' = [cret EXCEPT ![c] = waf_cookie_cache[domain]]
         /\ cpc' = [cpc EXCEPT ![c] = "done"]
         /\ lock_holder' = 0
         /\ UNCHANGED <<cgot, did_extract>>
    ELSE /\ cpc' = [cpc EXCEPT ![c] = "extracting"]
         /\ lock_holder' = c
         /\ did_extract' = [did_extract EXCEPT ![c] = TRUE]
         /\ UNCHANGED <<cgot, cret>>

\* A task calls get_cached_waf_cookies(domain, login_url, required_cookies):
\* it enters the region at once when the lock is free, and queues otherwise.
get_cached_waf_cookies_call(c, domain, required) ==
    /\ UNCHANGED <<strat_vars, sess_vars>>
    /\ cpc[c] = "idle"
    /\ ncalls < MaxCalls
    /\ ncalls' = ncalls + 1
    /\ start_no' = [start_no EXCEPT ![c] = ncalls + 1]
    /\ cdom' = [cdom EXCEPT ![c] = domain]
    /\ creq' = [creq EXCEPT ![c] = required]
    /\ active_at_start' = [active_at_start EXCEPT
                             ![c] = {o \in Callers : cpc[o] \in {"waiting", "extracting"}}]
    /\ first_after_clear' = [first_after_clear EXCEPT ![c] = after_clear[domain]]
    /\ after_clear' = [after_clear EXCEPT ![domain] = FALSE]
    /\ IF LockFree
       THEN /\ CheckCache(c, domain, required)
            /\ UNCHANGED lock_waiters
       ELSE /\ cpc' = [cpc EXCEPT ![c] = "waiting"]
            /\ lock_waiters' = Append(lock_waiters, c)
            /\ UNCHANGED <<lock_holder, cgot, cret, did_extract>>
    /\ UNCHANGED <<waf_cookie_cache, cleared>>

\* The first waiter is woken by the release and enters the region.
get_cached_waf_cookies_wake(c) ==
    /\ UNCHANGED <<strat_vars, sess_vars>>
    /\ cpc[c] = "waiting"
    /\ lock_holder = 0
    /\ lock_waiters # << >>
    /\ Head(lock_waiters) = c
    /\ lock_waiters' = Tail(lock_waiters)
    /\ CheckCache(c, cdom[c], creq[c])
    /\ UNCHANGED <<waf_cookie_cache, cdom, creq, active_at_start, cleared,
                   after_clear, first_after_clear, ncalls, start_no>>

\* _get_waf_cookies_from_browser returns the required cookies of the jar it
\* found; the caller stores them when complete, returns, and releases the lock.
get_cached_waf_cookies_extracted(c, found) ==
    /\ UNCHANGED <<strat_vars, sess_vars>>
    /\ cpc[c] = "extracting"
    /\ LET extracted == get_waf_cookies(found, creq[c]) IN
        /\ cgot' = [cgot EXCEPT ![c] = Some(extracted)]
        /\ IF ShouldStore(extracted, creq[c])
           THEN /\ waf_cookie_cache' =
                      [waf_cookie_cache EXCEPT ![cdom[c]] = Some(extracted)]
                /\ cret' = [cret EXCEPT ![c] = Some(extracted)]
           ELSE /\ cret' = [cret EXCEPT ![c] = None]
                /\ UNCHANGED waf_cookie_cache
    /\ cpc' = [cpc EXCEPT ![c] = "done"]
    /\ lock_holder' = 0
    /\ UNCHANGED <<lock_waiters, cdom, creq, did_extract, active_at_start,
                   cleared, after_clear, first_after_clear, ncalls, start_no>>

\* An exception that leaves the call with the lock still held.
get_cached_waf_cookies_raised_holding(c) ==
    /\ UNCHANGED <<strat_vars, sess_vars>>
    /\ cpc[c] = "extracting"
    /\ cgot' = [cgot EXCEPT ![c] = Raised]
    /\ cret' = [cret EXCEPT ![c] = Raised]
    /\ cpc' = [cpc EXCEPT ![c] = "done"]
    /\ UNCHANGED <<waf_cookie_cache, lock_holder, lock_waiters, cdom, creq,
                   did_extract, active_at_start, cleared, after_clear,
                   first_after_clear, ncalls, start_no>>

\* _get_waf_cookies_from_browser raises: the exception leaves the region
\* (releasing the lock) and the call.
get_cached_waf_cookies_raised(c) ==
    /\ UNCHANGED <<strat_vars, sess_vars>>
    /\ cpc[c] = "extracting"
    /\ cgot' = [cgot EXCEPT ![c] = Raised]
    /\ cret' = [cret EXCEPT ![c] = Raised]
    /\ cpc' = [cpc EXCEPT ![c] = "done"]
    /\ lock_holder' = 0
    /\ UNCHANGED <<waf_cookie_cache, lock_waiters, cdom, creq, did_extract,
                   active_at_start, cleared, after_clear, first_after_clear, ncalls, start_no>>

\* clear_waf_cookie_cache(): a plain function that takes no lock, so it runs
\* between any two steps of the callers.
clear_waf_cookie_cache ==
    /\ UNCHANGED <<strat_vars, sess_vars>>
    /\ waf_cookie_cache' = [d \in Domains |-> NoEntry]
    /\ cleared' = TRUE
    /\ after_clear' = [d \in Domains |->
                         after_clear[d] \/ waf_cookie_cache[d] # NoEntry]
    /\ UNCHANGED <<lock_holder, lock_waiters, cpc, cdom, creq, cgot, cret,
                   did_extract, active_at_start, first_after_clear, ncalls, start_no>>

\* The task of a finished call ends; a later task may call again.
task_done(c) ==
    /\ UNCHANGED <<strat_vars, sess_vars>>
    /\ cpc[c] = "done"
    /\ cpc' = [cpc EXCEPT ![c] = "idle"]
    /\ cdom' = [cdom EXCEPT ![c] = "d1"]
    /\ creq' = [creq EXCEPT ![c] = {}]
    /\ cgot' = [cgot EXCEPT ![c] = Pending]
    /\ cret' = [cret EXCEPT ![c] = Pending]
    /\ did_extract' = [did_extract EXCEPT ![c] = FALSE]
    /\ first_after_clear' = [first_after_clear EXCEPT ![c] = FALSE]
    /\ active_at_start' = [o \in Callers |->
                             IF o = c THEN {} ELSE active_at_start[o] \ {c}]
    /\ start_no' = [start_no EXCEPT ![c] = 0]
    /\ UNCHANGED <<waf_cookie_cache, lock_holder, lock_waiters, cleared,
                   after_clear, ncalls>>

\* the required_cookies arguments of the callers of the cache
CacheReqs == Reqs \cup {{"waf_b"}}

CacheNext ==
    \/ \E c \in Callers, d \in Domains, R \in CacheReqs :
          get_cached_waf_cookies_call(c, d, R)
    \/ \E c \in Callers : get_cached_waf_cookies_wake(c)
    \/ \E c \in Callers, found \in Jars : get_cached_waf_cookies_extracted(c, found)
    \/ \E c \in Callers : get_cached_waf_cookies_raised(c)
    \/ clear_waf_cookie_cache
    \/ \E c \in Callers : task_done(c)

CacheSpec == Init /\ [][CacheNext]_vars

\* the extraction of caller c comes to its end, with a map or an exception
ExtractionEnds(c) ==
    \/ \E found \in Jars : get_cached_waf_cookies_extracted(c, found)
    \/ get_cached_waf_cookies_raised(c)

\* The cache under a fair event loop: a task that can run is run (the woken
\* waiter enters the region), and every browser extraction terminates.
CacheFairSpec ==
    /\ CacheSpec
    /\ \A c \in Callers : WF_vars(get_cached_waf_cookies_wake(c))
    /\ \A c \in Callers : WF_vars(ExtractionEnds(c))

(***************************************************************************)
(* Properties of the cache.                                                *)
(***************************************************************************)
\* Two calls with the same arguments that ran concurrently, one begun right
\* after the other, with no clear of the cache.
TwoConcurrentCalls(c1, c2) ==
    /\ c1 # c2
    /\ cpc[c1] # "idle" /\ cpc[c2] # "idle"
    /\ cdom[c1] = cdom[c2] /\ creq[c1] = creq[c2]
    /\ start_no[c2] = start_no[c1] + 1
    /\ c1 \in active_at_start[c2]
    /\ ~cleared

\* The extraction of call c ended without a result the cache stores.
ExtractionNotStored(c) ==
    \/ cgot[c] = Raised
    \/ IsDict(cgot[c]) /\ ~ShouldStore(cgot[c].map, creq[c])

C2_NoPartialCacheWrite ==
    [][ /\ \A c \in Callers :
              ( /\ cpc[c] = "extracting" /\ cpc'[c] = "done"
                /\ IsDict(cgot'[c])
                /\ ~HasAll(cgot'[c].map, creq[c]) )
              => (cret'[c] = None /\ waf_cookie_cache' = waf_cookie_cache)
        /\ \A d \in Domains :
              (waf_cookie_cache'[d] # waf_cookie_cache[d]
                 /\ waf_cookie_cache'[d] # NoEntry)
              => \E c \in Callers :
                    /\ cpc[c] = "extracting" /\ cdom[c] = d
                    /\ waf_cookie_cache'[d] = cgot'[c]
                    /\ IsDict(cgot'[c])
                    /\ HasAll(cgot'[c].map, creq[c])
      ]_vars

\* C2 witness: required {waf_a, waf_b}, extracted {waf_a: x}: the call
\* returned None and its domain has no entry.
C2_Witness ==
    \E c \in Callers :
        /\ cpc[c] = "done"
        /\ creq[c] = {"waf_a", "waf_b"}
        /\ cgot[c] = Some([n \in {"waf_a"} |-> "x"])
        /\ cret[c] = None
        /\ waf_cookie_cache[cdom[c]] = NoEntry
        /\ ~cleared

\* C4 as stated: the first call for a domain that begins after a clear that
\* emptied the domain's entry ends only after it started an extraction.
C4_CallAfterClearExtracts ==
    \A c \in Callers :
        (first_after_clear[c] /\ cpc[c] = "done") => did_extract[c]

(***************************************************************************)
(* The strategies.  Every action is one awaited call of the code together  *)
(* with the statements that follow it up to the next await; `msg` is the   *)
(* length of str(e) of the exception the awaited call raises.              *)
(***************************************************************************)
args_vars == <<strategy, required_cookies, oauth_provider>>

local_vars == <<cdp_available, use_cdp, context, temp_dir, page, waf_cookies,
                api_calls, sel_i, current_url>>

world_vars == <<ctx_state, ctx_origin, page_state, dir_state, client_state, jar,
                listening, closes, nreq, seen>>

exit_vars == <<outcome, result>>

\* the functions that launch a stealth context of their own
StealthStrategies == {"cookie_replay", "real_login", "extract"}

Strategies == StealthStrategies \cup {"oauth", "http"}

\* The awaited call raised inside the `try` of a browser function: the
\* `except Exception` handler builds the failure result (the extraction of
\* the cache has no handler: the exception goes on), then `finally` runs.
Caught(step, msg) ==
    /\ faults' = faults \cup {step}
    /\ pc' = "finally"
    /\ UNCHANGED trail
    /\ pending' = IF strategy = "extract"
                  THEN PendingRaise
                  ELSE PendingReturn(ExceptionResult(msg))

\* The awaited call raised outside any `try`: the exception leaves the call.
Escapes(step) ==
    /\ faults' = faults \cup {step}
    /\ pc' = "ended"
    /\ outcome' = "raised"
    /\ UNCHANGED <<pending, result, trail>>

\* the trail `t` with `mark` at its end, unless it is in it already
Reach(t, mark) ==
    IF \E i \in DOMAIN t : t[i] = mark THEN t ELSE Append(t, mark)

RECURSIVE ReachAll(_, _)
ReachAll(t, marks) ==
    IF marks = << >> THEN t ELSE ReachAll(Reach(t, Head(marks)), Tail(marks))

\* On to the next await, `marks` being what happened on the way there.
AdvanceVia(marks, next) ==
    /\ pc' = next
    /\ trail' = Reach(ReachAll(trail, marks), next)
    /\ UNCHANGED <<pending, faults>>

\* On to the next await: the awaited call returned, or it raised an exception
\* that an inner `except` ignores.
Advance(next) == AdvanceVia(<< >>, next)

\* A `return` statement inside the `try`, `marks` being what happened just
\* before it: `finally` runs before the return takes effect.
ReturnVia(marks, res) ==
    /\ pc' = "finally"
    /\ pending' = PendingReturn(res)
    /\ trail' = ReachAll(trail, marks)
    /\ UNCHANGED faults

Return(res) == ReturnVia(<< >>, res)

\* A caller invokes one of the functions.
invoke(fn, required, provider) ==
    /\ pc = "idle"
    /\ fn \in StealthStrategies \/ required = {}
    /\ fn = "oauth" \/ provider = "github"
    /\ strategy' = fn
    /\ required_cookies' = required
    /\ oauth_provider' = provider
    /\ pc' = CASE fn = "oauth" -> "probe"
               [] fn = "http" -> "client_open"
               [] OTHER -> "start_driver"
    /\ trail' = <<pc'>>
    /\ UNCHANGED <<local_vars, world_vars, exit_vars, pending, faults, cache_vars, sess_vars>>

\* `async with async_playwright() as p`: the driver starts, or fails to.
start_driver(ok) ==
    /\ pc = "start_driver"
    /\ IF ok
       THEN /\ Advance(IF strategy = "oauth" THEN "acquire" ELSE "create_context")
            /\ UNCHANGED exit_vars
       ELSE Escapes("start_driver")
    /\ UNCHANGED <<args_vars, local_vars, world_vars, cache_vars, sess_vars>>

\* _create_stealth_context, first half: tempfile.mkdtemp() and
\* launch_persistent_context(user_data_dir=temp_dir, ...).
create_stealth_context_launch(how, msg) ==
    /\ pc = "create_context"
    /\ \/ /\ how = "mkdtemp_raises"
          /\ Caught("mkdtemp", msg)
          /\ UNCHANGED <<dir_state, ctx_state, ctx_origin>>
       \/ /\ how = "launch_raises"
          /\ dir_state' = "exists"
          /\ Caught("launch", msg)
          /\ UNCHANGED <<ctx_state, ctx_origin>>
       \/ /\ how = "ok"
          /\ dir_state' = "exists"
          /\ ctx_state' = "open"
          /\ ctx_origin' = "launched"
          /\ Advance("add_init_script")
    /\ UNCHANGED <<args_vars, local_vars, page_state, client_state, jar,
                   listening, closes, nreq, seen, exit_vars, cache_vars, sess_vars>>

\* _create_stealth_context, second half: context.add_init_script(...) and the
\* return that binds `context, temp_dir` in the caller.
create_stealth_context_script(ok, msg) ==
    /\ pc = "add_init_script"
    /\ IF ok
       THEN /\ context' = "bound"
            /\ temp_dir' = "bound"
            /\ Advance("new_page")
       ELSE /\ Caught("add_init_script", msg)
            /\ UNCHANGED <<context, temp_dir>>
    /\ UNCHANGED <<args_vars, cdp_available, use_cdp, page, waf_cookies,
                   api_calls, sel_i, current_url, world_vars, exit_vars,
                   cache_vars, sess_vars>>

\* page = await context.new_page(); the login and OAuth functions attach the
\* request listener right after it.
new_page(ok, msg) ==
    /\ pc = "new_page"
    /\ IF ok
       THEN /\ page' = "bound"
            /\ page_state' = "open"
            /\ listening' = (strategy \in {"real_login", "oauth"})
            /\ Advance("goto_login")
       ELSE /\ Caught("new_page", msg)
            /\ UNCHANGED <<page, page_state, listening>>
    /\ UNCHANGED <<args_vars, cdp_available, use_cdp, context, temp_dir,
                   waf_cookies, api_calls, sel_i, current_url, ctx_state,
                   ctx_origin, dir_state, client_state, jar, closes, nreq, seen,
                   exit_vars, cache_vars, sess_vars>>

\* await page.goto(login_url, wait_until='networkidle'): the site sets cookies
\* (the OAuth function never reads them: its jar is left out).
goto_login(ok, cookies, msg) ==
    /\ pc = "goto_login"
    /\ strategy = "oauth" => cookies = EmptyDict
    /\ IF ok
       THEN /\ jar' = cookies
            /\ Advance("wait_load")
       ELSE /\ Caught("goto_login", msg)
            /\ UNCHANGED jar
    /\ UNCHANGED <<args_vars, local_vars, ctx_state, ctx_origin, page_state,
                   dir_state, client_state, listening, closes, nreq, seen, exit_vars,
                   cache_vars, sess_vars>>

\* the await that follows _wait_for_page_load in each function
AfterPageLoad == IF strategy = "oauth" THEN "check_url" ELSE "harvest"

\* _wait_for_page_load: wait_for_function; its exception is swallowed and
\* wait_for_timeout is awaited instead.
wait_for_page_load(ok) ==
    /\ pc = "wait_load"
    /\ IF ok
       THEN Advance(AfterPageLoad)
       ELSE Advance("wait_load_timeout")
    /\ UNCHANGED <<args_vars, local_vars, world_vars, exit_vars, cache_vars, sess_vars>>

\* _wait_for_page_load, the `except` branch: page.wait_for_timeout(...)
wait_for_page_load_timeout(ok, msg) ==
    /\ pc = "wait_load_timeout"
    /\ IF ok
       THEN Advance(AfterPageLoad)
       ELSE Caught("wait_load_timeout", msg)
    /\ UNCHANGED <<args_vars, local_vars, world_vars, exit_vars, cache_vars, sess_vars>>

\* f'缺少 WAF cookies: {missing_cookies}': 16 characters and the repr of the
\* list of the missing names (each name has five characters)
MissingError(missing) ==
    [kind |-> "missing_waf", len |-> 16 + 9 * Cardinality(missing)]

\* A check that finds nothing missing.
MissingNone(got, required) == {}

\* missing_cookies = [c for c in required_cookies if c not in waf_cookies]
MissingCookies(got, required) == required \ DOMAIN got

\* waf_cookies = await _get_waf_cookies(page, required_cookies) and what each
\* function does with it before its next await.
harvest(ok, msg) ==
    /\ pc = "harvest"
    /\ IF ~ok
       THEN /\ Caught("harvest", msg)
            /\ UNCHANGED <<waf_cookies, listening>>
       ELSE LET got == get_waf_cookies(jar, required_cookies)
                missing_cookies == MissingCookies(got, required_cookies)
            IN  /\ waf_cookies' = got
                /\ CASE strategy = "extract" ->
                          /\ Return(BrowserResult(TRUE, got, << >>, NoError))
                          /\ UNCHANGED listening
                     [] strategy = "real_login" ->
                          /\ Advance("wait_selector")
                          /\ UNCHANGED listening
                     [] OTHER ->
                          IF missing_cookies # {}
                          THEN /\ Return(BrowserResult(FALSE, EmptyDict, << >>,
                                                       MissingError(missing_cookies)))
                               /\ UNCHANGED listening
                          ELSE /\ listening' = TRUE
                               /\ Advance("clear_cookies")
    /\ UNCHANGED <<args_vars, cdp_available, use_cdp, context, temp_dir, page,
                   api_calls, sel_i, current_url, ctx_state, ctx_origin,
                   page_state, dir_state, client_state, jar, closes, nreq, seen,
                   exit_vars, cache_vars, sess_vars>>

(***************************************************************************)
(* get_waf_cookies_and_trigger_signin after the harvest.                   *)
(***************************************************************************)
\* the cookie that _set_session_cookie adds
SessionCookie == [n \in {"session"} |-> "x"]

\* dict union, the right operand winning
Merge(a, b) ==
    [n \in (DOMAIN a) \cup (DOMAIN b) |-> IF n \in DOMAIN b THEN b[n] ELSE a[n]]

\* the entry f'GET {domain}/api/user/self (browser)'
BrowserSelfCall ==
    [method |-> "GET", url |-> <<"/", "a", "p", "i", "/", "u">>, tag |-> "browser"]

\* await context.clear_cookies()
clear_cookies(ok, msg) ==
    /\ strategy = "cookie_replay"
    /\ pc = "clear_cookies"
    /\ IF ok
       THEN /\ jar' = EmptyDict
            /\ Advance("wait_cookie")
       ELSE /\ Caught("clear_cookies", msg)
            /\ UNCHANGED jar
    /\ UNCHANGED <<args_vars, local_vars, ctx_state, ctx_origin, page_state,
                   dir_state, client_state, listening, closes, nreq, seen, exit_vars,
                   cache_vars, sess_vars>>

\* A pause after which the session cookie is not injected.
wait_cookie_then_home(ok, msg) ==
    /\ strategy = "cookie_replay"
    /\ pc = "wait_cookie"
    /\ IF ok THEN Advance("goto_home") ELSE Caught("wait_cookie", msg)
    /\ UNCHANGED <<args_vars, local_vars, world_vars, exit_vars, cache_vars, sess_vars>>

\* await page.wait_for_timeout(COOKIE_SET_WAIT_MS)
wait_cookie(ok, msg) ==
    /\ strategy = "cookie_replay"
    /\ pc = "wait_cookie"
    /\ IF ok THEN Advance("set_session") ELSE Caught("wait_cookie", msg)
    /\ UNCHANGED <<args_vars, local_vars, world_vars, exit_vars, cache_vars, sess_vars>>

\* await _set_session_cookie(context, domain, user_session)
set_session_cookie(ok, msg) ==
    /\ strategy = "cookie_replay"
    /\ pc = "set_session"
    /\ IF ok
       THEN /\ jar' = Merge(jar, SessionCookie)
            /\ Advance("goto_home")
       ELSE /\ Caught("set_session", msg)
            /\ UNCHANGED jar
    /\ UNCHANGED <<args_vars, local_vars, ctx_state, ctx_origin, page_state,
                   dir_state, client_state, listening, closes, nreq, seen, exit_vars,
                   cache_vars, sess_vars>>

\* await page.goto(home_url, wait_until='networkidle')
goto_home(ok, msg) ==
    /\ strategy = "cookie_replay"
    /\ pc = "goto_home"
    /\ IF ok THEN Advance("evaluate") ELSE Caught("goto_home", msg)
    /\ UNCHANGED <<args_vars, local_vars, world_vars, exit_vars, cache_vars, sess_vars>>

\* A fetch whose failure ends the function through the outer handler.
AfterFetchFatal(how) ==
    IF how = "success"
    THEN AdvanceVia(<<"fetch_ok">>, "settle")
    ELSE Caught("evaluate", 0)

\* What follows the in-page fetch: the `if`, the `else` and the inner
\* `except Exception` all go on to the settle wait.
AfterFetch(how) ==
    AdvanceVia(IF how = "success" THEN <<"fetch_ok">> ELSE << >>, "settle")

\* The in-page fetch of /api/user/self inside its own try/except: it reports
\* success (the call is appended to api_calls), reports a failure, or the
\* evaluate call raises; the function goes on in all three cases.
evaluate_user_self(how) ==
    /\ strategy = "cookie_replay"
    /\ pc = "evaluate"
    /\ how \in {"success", "not_ok", "raises"}
    /\ api_calls' = IF how = "success"
                    THEN Append(api_calls, BrowserSelfCall)
                    ELSE api_calls
    /\ AfterFetch(how)
    /\ UNCHANGED <<args_vars, cdp_available, use_cdp, context, temp_dir, page,
                   waf_cookies, sel_i, current_url, world_vars, exit_vars,
                   cache_vars, sess_vars>>

\* await page.wait_for_timeout(SIGNIN_TRIGGER_WAIT_MS) and the return of the
\* successful result (the login and OAuth functions end the same way; the
\* OAuth function returns no cookies).
settle(ok, msg) ==
    /\ pc = "settle"
    /\ IF ok
       THEN Return(BrowserResult(TRUE,
                                 IF strategy = "oauth" THEN EmptyDict ELSE waf_cookies,
                                 api_calls, NoError))
       ELSE Caught("settle", msg)
    /\ UNCHANGED <<args_vars, local_vars, world_vars, exit_vars, cache_vars, sess_vars>>

(***************************************************************************)
(* Selector heuristics of perform_real_login_signin and of                 *)
(* perform_oauth_signin_with_chrome.                                       *)
(***************************************************************************)
\* len(username_selectors)
NumUsernameSelectors == 6

\* len(password_selectors)
NumPasswordSelectors == 4

\* len(submit_selectors)
NumSubmitSelectors == 7

\* len(oauth_selectors['github'])
NumGithubSelectors == 14

\* len(oauth_selectors['google'])
NumGoogleSelectors == 4

\* len(oauth_selectors['linuxdo'])
NumLinuxdoSelectors == 4

\* oauth_selectors.get(oauth_provider, oauth_selectors['github'])
NumOAuthSelectors(provider) ==
    CASE provider = "google" -> NumGoogleSelectors
      [] provider = "linuxdo" -> NumLinuxdoSelectors
      [] OTHER -> NumGithubSelectors

\* the length of the list the loop at `loop` walks
NumSelectors(loop) ==
    CASE loop = "username" -> NumUsernameSelectors
      [] loop = "password" -> NumPasswordSelectors
      [] loop = "submit" -> NumSubmitSelectors
      [] OTHER -> NumOAuthSelectors(oauth_provider)

SelectorLoops == {"username", "password", "submit", "oauth_button"}

\* len(oauth_provider) for the providers of the model
ProviderLen(provider) ==
    CASE provider = "linuxdo" -> 7
      [] provider = "other" -> 5
      [] OTHER -> 6

\* '无法找到用户名输入框'
UsernameNotFound == [kind |-> "username_not_found", len |-> 10]

\* '无法找到密码输入框'
PasswordNotFound == [kind |-> "password_not_found", len |-> 9]

\* f'找不到 {oauth_provider} 登录按钮'
ButtonNotFound(provider) ==
    [kind |-> "button_not_found", len |-> 9 + ProviderLen(provider)]

\* 'OAuth 授权超时'
OAuthTimeout == [kind |-> "oauth_timeout", len |-> 10]

\* f'登录失败: {error_text[:50]}'
LoginFailed(text_len) ==
    [kind |-> "login_failed", len |-> 6 + Min(text_len, ErrorTextLimit)]

\* where a loop goes on when one of its selectors was acted on
AfterLoop(loop) ==
    CASE loop = "username" -> "password"
      [] loop = "password" -> "submit"
      [] loop = "submit" -> "wait_url"
      [] OTHER -> "wait_oauth"

\* what follows a loop none of whose selectors was acted on: the return of a
\* failure, or for the submit loop the Enter key
\* A loop that goes on to the next step although nothing was acted on.
LoopExhaustedGoesOn(loop, marks) ==
    AdvanceVia(marks, IF loop = "submit" THEN "press_enter" ELSE AfterLoop(loop))

LoopExhausted(loop, marks) ==
    CASE loop = "username" ->
            ReturnVia(marks, BrowserResult(FALSE, waf_cookies, api_calls,
                                           UsernameNotFound))
      [] loop = "password" ->
            ReturnVia(marks, BrowserResult(FALSE, waf_cookies, api_calls,
                                           PasswordNotFound))
      [] loop = "submit" ->
            AdvanceVia(marks, "press_enter")
      [] OTHER ->
            ReturnVia(marks, BrowserResult(FALSE, EmptyDict, api_calls,
                                           ButtonNotFound(oauth_provider)))

\* the mark of `if element:` having held in a loop
Matched(loop) ==
    CASE loop = "username" -> "username_matched"
      [] loop = "password" -> "password_matched"
      [] loop = "submit" -> "submit_matched"
      [] OTHER -> "oauth_button_matched"

\* await page.wait_for_selector(..., timeout=10000); a timeout is only logged
wait_for_selector(ok) ==
    /\ strategy = "real_login"
    /\ pc = "wait_selector"
    /\ ok \in BOOLEAN
    /\ Advance("username")
    /\ sel_i' = 1
    /\ UNCHANGED <<args_vars, cdp_available, use_cdp, context, temp_dir, page,
                   waf_cookies, api_calls, current_url, world_vars, exit_vars,
                   cache_vars, sess_vars>>

\* One iteration of a selector loop: query_selector(selector), then fill or
\* click on the element found.  The selector matches nothing, or one of the
\* two calls raises (`except Exception: continue`), or the element is acted
\* on (`break`).
try_selector(how) ==
    /\ pc \in SelectorLoops
    /\ how \in {"absent", "query_raises", "act_raises", "acted"}
    /\ LET marks == IF how \in {"act_raises", "acted"}
                    THEN <<Matched(pc)>> ELSE << >>
       IN  IF how = "acted"
           THEN /\ AdvanceVia(marks, AfterLoop(pc))
                /\ sel_i' = 1
           ELSE IF sel_i < NumSelectors(pc)
                THEN /\ AdvanceVia(marks, pc)
                     /\ sel_i' = sel_i + 1
                ELSE /\ LoopExhausted(pc, marks)
                     /\ sel_i' = sel_i
    /\ UNCHANGED <<args_vars, cdp_available, use_cdp, context, temp_dir, page,
                   waf_cookies, api_calls, current_url, world_vars, exit_vars,
                   cache_vars, sess_vars>>

\* await page.keyboard.press('Enter') when no submit control was clicked
press_enter(ok, msg) ==
    /\ strategy = "real_login"
    /\ pc = "press_enter"
    /\ IF ok THEN Advance("wait_url") ELSE Caught("press_enter", msg)
    /\ UNCHANGED <<args_vars, local_vars, world_vars, exit_vars, cache_vars, sess_vars>>

\* await page.wait_for_url('**/console**', timeout=15000); on its exception
\* page.url is read: with 'login' in it the error element is looked up next,
\* otherwise the function goes on to the settle wait.
wait_for_console_url(ok, url) ==
    /\ strategy = "real_login"
    /\ pc = "wait_url"
    /\ IF ok
       THEN /\ url = << >>
            /\ Advance("settle")
            /\ UNCHANGED current_url
       ELSE /\ url \in Urls
            /\ current_url' = url
            /\ Advance(IF Contains(Lower(url), LoginWord)
                       THEN "scrape_error" ELSE "settle")
    /\ UNCHANGED <<args_vars, cdp_available, use_cdp, context, temp_dir, page,
                   waf_cookies, api_calls, sel_i, world_vars, exit_vars,
                   cache_vars, sess_vars>>

\* error_text = await page.evaluate(...): no text (null or empty) lets the
\* function go on; a text ends it with '登录失败: ' and the text's first 50
\* characters; an exception reaches the outer handler.
scrape_error(how, text_len) ==
    /\ strategy = "real_login"
    /\ pc = "scrape_error"
    /\ \/ /\ how = "raises"
          /\ Caught("scrape_error", text_len)
       \/ /\ how = "text"
          /\ IF text_len = 0
             THEN Advance("settle")
             ELSE Return(BrowserResult(FALSE, waf_cookies, api_calls,
                                       LoginFailed(text_len)))
    /\ UNCHANGED <<args_vars, local_vars, world_vars, exit_vars, cache_vars, sess_vars>>

(***************************************************************************)
(* perform_oauth_signin_with_chrome.                                       *)
(***************************************************************************)
\* the characters of oauth_provider
ProviderChars(provider) ==
    CASE provider = "github" -> <<"g", "i", "t", "h", "u", "b">>
      [] provider = "google" -> <<"g", "o", "o", "g", "l", "e">>
      [] provider = "linuxdo" -> <<"l", "i", "n", "u", "x", "d", "o">>
      [] OTHER -> <<"o", "t", "h", "e", "r">>

\* 'github.com'
GithubCom == <<"g", "i", "t", "h", "u", "b", ".", "c", "o", "m">>

\* 'google.com'
GoogleCom == <<"g", "o", "o", "g", "l", "e", ".", "c", "o", "m">>

\* the URLs the page may be at when the first OAuth wait has expired
OAuthUrls ==
    { GithubCom,
      <<"G", "i", "t", "H", "u", "b", ".", "c", "o", "m">>,
      GoogleCom,
      <<"l", "i", "n", "u", "x", "d", "o">>,
      <<"/", "c", "o", "n", "s", "o", "l", "e">> }

\* oauth_provider in current_url.lower() or 'github.com' in current_url
\* or 'google.com' in current_url
OnProviderPage(provider, url) ==
    \/ Contains(Lower(url), ProviderChars(provider))
    \/ Contains(url, GithubCom)
    \/ Contains(url, GoogleCom)

\* cdp_available = await _check_chrome_debug_port(): the probe catches its own
\* exceptions and answers False.
check_chrome_debug_port(avail) ==
    /\ strategy = "oauth"
    /\ pc = "probe"
    /\ cdp_available' = avail
    /\ Advance("mkdir")
    /\ UNCHANGED <<args_vars, use_cdp, context, temp_dir, page, waf_cookies,
                   api_calls, sel_i, current_url, world_vars, exit_vars,
                   cache_vars, sess_vars>>

\* PLAYWRIGHT_USER_DATA_DIR.mkdir(parents=True, exist_ok=True), before the `try`
mkdir_profile(ok) ==
    /\ strategy = "oauth"
    /\ pc = "mkdir"
    /\ IF ok
       THEN /\ Advance("start_driver")
            /\ UNCHANGED exit_vars
       ELSE Escapes("mkdir")
    /\ UNCHANGED <<args_vars, local_vars, world_vars, cache_vars, sess_vars>>

\* The session: with the debug port open connect_over_cdp and the first
\* context of the attached browser (an attached browser without contexts gets
\* one from new_context, the next await); otherwise
\* launch_persistent_context on the profile directory.
acquire_session(how, msg) ==
    /\ strategy = "oauth"
    /\ pc = "acquire"
    /\ IF cdp_available
       THEN \/ /\ how = "connect_raises"
               /\ Caught("connect_over_cdp", msg)
               /\ UNCHANGED <<context, use_cdp, ctx_state, ctx_origin>>
            \/ /\ how = "contexts"
               /\ context' = "bound"
               /\ use_cdp' = TRUE
               /\ ctx_state' = "open"
               /\ ctx_origin' = "cdp_existing"
               /\ Advance("new_page")
            \/ /\ how = "no_contexts"
               /\ Advance("new_context")
               /\ UNCHANGED <<context, use_cdp, ctx_state, ctx_origin>>
       ELSE \/ /\ how = "launch_raises"
               /\ Caught("launch", msg)
               /\ UNCHANGED <<context, use_cdp, ctx_state, ctx_origin>>
            \/ /\ how = "launched"
               /\ context' = "bound"
               /\ ctx_state' = "open"
               /\ ctx_origin' = "launched"
               /\ Advance("new_page")
               /\ UNCHANGED use_cdp
    /\ UNCHANGED <<args_vars, cdp_available, temp_dir, page, waf_cookies,
                   api_calls, sel_i, current_url, page_state, dir_state,
                   client_state, jar, listening, closes, nreq, seen, exit_vars,
                   cache_vars, sess_vars>>

\* context = await browser.new_context(); use_cdp = True
new_context(ok, msg) ==
    /\ strategy = "oauth"
    /\ pc = "new_context"
    /\ IF ok
       THEN /\ context' = "bound"
            /\ use_cdp' = TRUE
            /\ ctx_state' = "open"
            /\ ctx_origin' = "cdp_created"
            /\ Advance("new_page")
       ELSE /\ Caught("new_context", msg)
            /\ UNCHANGED <<context, use_cdp, ctx_state, ctx_origin>>
    /\ UNCHANGED <<args_vars, cdp_available, temp_dir, page, waf_cookies,
                   api_calls, sel_i, current_url, page_state, dir_state,
                   client_state, jar, listening, closes, nreq, seen, exit_vars,
                   cache_vars, sess_vars>>

\* The check of page.url that returns success at once away from the login page.
check_logged_in_no_wait(url) ==
    /\ strategy = "oauth"
    /\ pc = "check_url"
    /\ current_url' = url
    /\ IF ~Contains(Lower(url), SlashLogin)
       THEN /\ Return(BrowserResult(TRUE, EmptyDict, api_calls, NoError))
            /\ UNCHANGED sel_i
       ELSE /\ Advance("oauth_button")
            /\ sel_i' = 1
    /\ UNCHANGED <<args_vars, cdp_available, use_cdp, context, temp_dir, page,
                   waf_cookies, api_calls, world_vars, exit_vars, cache_vars, sess_vars>>

\* current_url = page.url after the page load: away from the login page the
\* function waits and returns success, on it the provider button is looked for.
check_logged_in(url) ==
    /\ strategy = "oauth"
    /\ pc = "check_url"
    /\ current_url' = url
    /\ IF ~Contains(Lower(url), SlashLogin)
       THEN /\ Advance("settle")
            /\ UNCHANGED sel_i
       ELSE /\ Advance("oauth_button")
            /\ sel_i' = 1
    /\ UNCHANGED <<args_vars, cdp_available, use_cdp, context, temp_dir, page,
                   waf_cookies, api_calls, world_vars, exit_vars, cache_vars, sess_vars>>

\* await page.wait_for_url(f'{domain}/**', timeout=30000); when it expires
\* page.url decides between a second wait and going on.
wait_for_oauth(ok, url) ==
    /\ strategy = "oauth"
    /\ pc = "wait_oauth"
    /\ IF ok
       THEN /\ url = << >>
            /\ Advance("settle")
            /\ UNCHANGED current_url
       ELSE /\ url \in OAuthUrls
            /\ current_url' = url
            /\ Advance(IF OnProviderPage(oauth_provider, url)
                       THEN "wait_oauth_again" ELSE "settle")
    /\ UNCHANGED <<args_vars, cdp_available, use_cdp, context, temp_dir, page,
                   waf_cookies, api_calls, sel_i, world_vars, exit_vars,
                   cache_vars, sess_vars>>

\* the second wait_for_url: its expiry ends the function with 'OAuth 授权超时'
wait_for_oauth_again(ok) ==
    /\ strategy = "oauth"
    /\ pc = "wait_oauth_again"
    /\ IF ok
       THEN Advance("settle")
       ELSE Return(BrowserResult(FALSE, EmptyDict, api_calls, OAuthTimeout))
    /\ UNCHANGED <<args_vars, local_vars, world_vars, exit_vars, cache_vars, sess_vars>>

(***************************************************************************)
(* trigger_signin_via_http.  The whole body is inside `try`; leaving the   *)
(* `async with` block closes the client on every path.                     *)
(***************************************************************************)
\* 'session 已过期，需要重新登录'
SessionExpired == [kind |-> "session_expired", len |-> 18]

\* f'HTTP 错误: {e.response.status_code}' with a three-digit status
HttpStatusError == [kind |-> "http_status", len |-> 12]

\* the entry f'GET {url} -> {response.status_code}'
HttpCall(url, status) == [method |-> "GET", url |-> url, tag |-> ToString(status)]

\* login_url, and f'{domain}/api/user/self'
LoginUrl == <<"/", "l", "o", "g", "i", "n">>

UserSelfUrl == <<"/", "a", "p", "i", "/", "u">>

\* the kinds of exception a call of the client may raise
HttpFaults == {"HTTPStatusError", "Exception"}

\* the result of the two `except` clauses: api_calls is kept
HttpFailure(kind, msg) ==
    BrowserResult(FALSE, EmptyDict, api_calls,
                  IF kind = "HTTPStatusError" THEN HttpStatusError
                  ELSE ExceptionError(msg))

\* An exception inside the `async with` block: the client is closed next,
\* then the `except` clause that matches it returns.
HttpCaught(step, kind, msg) ==
    /\ faults' = faults \cup {step}
    /\ pc' = "client_close"
    /\ pending' = PendingReturn(HttpFailure(kind, msg))
    /\ UNCHANGED trail

\* A `return` inside the `async with` block: the client is closed first.
HttpReturn(res) ==
    /\ pc' = "client_close"
    /\ pending' = PendingReturn(res)
    /\ UNCHANGED <<faults, trail>>

\* httpx.AsyncClient(...) and its __aenter__, and the cookies set on it
client_open(ok, kind, msg) ==
    /\ strategy = "http"
    /\ pc = "client_open"
    /\ IF ok
       THEN /\ client_state' = "open"
            /\ Advance("get_login")
            /\ UNCHANGED exit_vars
       ELSE /\ faults' = faults \cup {"client_open"}
            /\ pc' = "ended"
            /\ outcome' = "returned"
            /\ result' = HttpFailure(kind, msg)
            /\ UNCHANGED <<client_state, pending, trail>>
    /\ UNCHANGED <<args_vars, local_vars, ctx_state, ctx_origin, page_state,
                   dir_state, jar, listening, closes, nreq, seen, cache_vars, sess_vars>>

\* A test of the final URL that keeps its case.
RedirectedCaseSensitive(url) == ~Contains(url, SlashLogin)

\* '/login' not in final_url.lower()
Redirected(url) == ~Contains(Lower(url), SlashLogin)

\* response = await client.get(login_url, headers=headers) with redirects
\* followed; final_url = str(response.url)
get_login(ok, status, url, kind, msg) ==
    /\ strategy = "http"
    /\ pc = "get_login"
    /\ IF ok
       THEN LET calls == Append(api_calls, HttpCall(LoginUrl, status))
            IN  /\ api_calls' = calls
                /\ current_url' = url
                /\ IF Redirected(url)
                   THEN Advance("get_self")
                   ELSE HttpReturn(BrowserResult(FALSE, EmptyDict, calls,
                                                 SessionExpired))
       ELSE /\ HttpCaught("get_login", kind, msg)
            /\ UNCHANGED <<api_calls, current_url>>
    /\ UNCHANGED <<args_vars, cdp_available, use_cdp, context, temp_dir, page,
                   waf_cookies, sel_i, world_vars, exit_vars, cache_vars, sess_vars>>

\* user_response = await client.get(user_self_url, headers=api_headers): both
\* branches on its status code return success
get_user_self(ok, status, kind, msg) ==
    /\ strategy = "http"
    /\ pc = "get_self"
    /\ IF ok
       THEN LET calls == Append(api_calls, HttpCall(UserSelfUrl, status))
            IN  /\ api_calls' = calls
                /\ HttpReturn(BrowserResult(TRUE, EmptyDict, calls, NoError))
       ELSE /\ HttpCaught("get_self", kind, msg)
            /\ UNCHANGED api_calls
    /\ UNCHANGED <<args_vars, cdp_available, use_cdp, context, temp_dir, page,
                   waf_cookies, sel_i, current_url, world_vars, exit_vars,
                   cache_vars, sess_vars>>

\* __aexit__ of the client: it closes, and the pending return or handler
\* result is returned; an exception of the close is itself caught by the
\* `except` clauses, whose result is returned instead.
client_close(ok, kind, msg) ==
    /\ strategy = "http"
    /\ pc = "client_close"
    /\ closes' = Append(closes, "client.aclose")
    /\ pc' = "ended"
    /\ outcome' = "returned"
    /\ IF ok
       THEN /\ client_state' = "closed"
            /\ result' = pending.res
            /\ UNCHANGED faults
       ELSE /\ result' = HttpFailure(kind, msg)
            /\ faults' = faults \cup {"client.aclose"}
            /\ UNCHANGED client_state
    /\ UNCHANGED <<args_vars, local_vars, ctx_state, ctx_origin, page_state,
                   dir_state, jar, listening, nreq, seen, pending, trail, cache_vars, sess_vars>>

(***************************************************************************)
(* The `finally` blocks and the requests of the page.                      *)
(***************************************************************************)
\* The function ends: the pending return value is returned, the pending
\* exception is raised.
Leave ==
    /\ pc' = "ended"
    /\ outcome' = IF pending.kind = "return" THEN "returned" ELSE "raised"
    /\ result' = IF pending.kind = "return" THEN pending.res ELSE result
    /\ UNCHANGED <<pending, trail>>

\* A `finally` that closes nothing.
FinallyNoClose(ok) ==
    /\ pc' = "finally_rmtree"
    /\ UNCHANGED <<ctx_state, page_state, closes, faults, exit_vars, pending,
                   trail>>

\* `if context: await context.close()` of the functions that launched the
\* context: an exception of close() leaves the function at once.
FinallyCloseContext(ok) ==
    IF context = "bound"
    THEN /\ closes' = Append(closes, "context.close")
         /\ IF ok
            THEN /\ ctx_state' = "closed"
                 /\ page_state' = IF page_state = "open" THEN "closed" ELSE page_state
                 /\ pc' = "finally_rmtree"
                 /\ UNCHANGED <<faults, exit_vars, pending, trail>>
            ELSE /\ Escapes("context.close")
                 /\ UNCHANGED <<ctx_state, page_state>>
    ELSE /\ pc' = "finally_rmtree"
         /\ UNCHANGED <<ctx_state, page_state, closes, faults, exit_vars, pending,
                        trail>>

\* the `finally` of the three functions with a stealth context, first half
finally_close_context(ok) ==
    /\ strategy \in StealthStrategies
    /\ pc = "finally"
    /\ ok \/ context = "bound"
    /\ FinallyCloseContext(ok)
    /\ UNCHANGED <<args_vars, local_vars, ctx_origin, dir_state, client_state,
                   jar, listening, nreq, seen, cache_vars, sess_vars>>

\* second half: `if temp_dir: shutil.rmtree(temp_dir, ignore_errors=True)`,
\* which removes the directory or fails silently; then the function ends.
finally_rmtree(removed) ==
    /\ strategy \in StealthStrategies
    /\ pc = "finally_rmtree"
    /\ IF temp_dir = "bound"
       THEN /\ closes' = Append(closes, "rmtree")
            /\ dir_state' = IF removed THEN "removed" ELSE "exists"
       ELSE /\ removed
            /\ UNCHANGED <<closes, dir_state>>
    /\ Leave
    /\ UNCHANGED <<args_vars, local_vars, ctx_state, ctx_origin, page_state,
                   client_state, jar, listening, nreq, seen, faults, cache_vars, sess_vars>>

\* The `finally` of perform_oauth_signin_with_chrome, then the function ends.
\* With use_cdp the page is closed inside try/except (a failing close leaves
\* the page as it is) and neither the browser nor the context is touched;
\* otherwise `if context: await context.close()` as in the other functions.
finally_oauth(ok) ==
    /\ strategy = "oauth"
    /\ pc = "finally"
    /\ IF use_cdp
       THEN /\ IF page = "bound"
               THEN /\ closes' = Append(closes, "page.close")
                    /\ page_state' = IF ok THEN "closed" ELSE page_state
               ELSE /\ ok
                    /\ UNCHANGED <<closes, page_state>>
            /\ Leave
            /\ UNCHANGED <<ctx_state, faults>>
       ELSE IF context = "bound"
            THEN /\ closes' = Append(closes, "context.close")
                 /\ IF ok
                    THEN /\ ctx_state' = "closed"
                         /\ page_state' = IF page_state = "open"
                                          THEN "closed" ELSE page_state
                         /\ Leave
                         /\ UNCHANGED faults
                    ELSE /\ Escapes("context.close")
                         /\ UNCHANGED <<ctx_state, page_state>>
            ELSE /\ ok
                 /\ Leave
                 /\ UNCHANGED <<ctx_state, page_state, closes, faults>>
    /\ UNCHANGED <<args_vars, local_vars, ctx_origin, dir_state, client_state,
                   jar, listening, nreq, seen, cache_vars, sess_vars>>

\* the positions at which the page is open and may send requests
PageLive == page_state = "open" /\ pc \notin {"finally", "finally_rmtree", "ended"}

\* A recorder that keeps one entry for each distinct request.
log_request_once(method, url) ==
    LET entry == [method |-> method, url |-> url, tag |-> "request"]
    IN  IF Contains(url, SlashApi) /\ \A i \in DOMAIN api_calls : api_calls[i] # entry
        THEN Append(api_calls, entry)
        ELSE api_calls

\* log_request of _create_api_logger: a request whose URL contains '/api/'
\* is appended as '<METHOD> <URL>'.
log_request(method, url) ==
    IF Contains(url, SlashApi)
    THEN Append(api_calls, [method |-> method, url |-> url, tag |-> "request"])
    ELSE api_calls

\* the listener is called with a request
Observed(method, url) ==
    /\ nreq' = nreq + 1
    /\ seen' = Append(seen, [method |-> method, url |-> url])
    /\ api_calls' = log_request(method, url)

\* The page sends a request; the listener, when attached, sees it.
page_request(method, url) ==
    /\ PageLive
    /\ listening
    /\ nreq < MaxRequests
    /\ Observed(method, url)
    /\ UNCHANGED <<args_vars, cdp_available, use_cdp, context, temp_dir, page,
                   waf_cookies, sel_i, current_url, ctx_state, ctx_origin,
                   page_state, dir_state, client_state, jar, listening, closes,
                   exit_vars, pending, faults, pc, trail, cache_vars, sess_vars>>

StrategyNext ==
    \/ \E fn \in Strategies, R \in Reqs, prov \in Providers : invoke(fn, R, prov)
    \/ invoke("cookie_replay", ManyRequired, "github")
    \/ \E ok \in BOOLEAN : start_driver(ok)
    \/ \E how \in {"mkdtemp_raises", "launch_raises", "ok"}, msg \in MsgLens :
          create_stealth_context_launch(how, msg)
    \/ \E ok \in BOOLEAN, msg \in MsgLens : create_stealth_context_script(ok, msg)
    \/ \E ok \in BOOLEAN, msg \in MsgLens : new_page(ok, msg)
    \/ \E ok \in BOOLEAN, cookies \in Jars, msg \in MsgLens : goto_login(ok, cookies, msg)
    \/ \E ok \in BOOLEAN : wait_for_page_load(ok)
    \/ \E ok \in BOOLEAN, msg \in MsgLens : wait_for_page_load_timeout(ok, msg)
    \/ \E ok \in BOOLEAN, msg \in MsgLens : harvest(ok, msg)
    \/ \E ok \in BOOLEAN, msg \in MsgLens : clear_cookies(ok, msg)
    \/ \E ok \in BOOLEAN, msg \in MsgLens : wait_cookie(ok, msg)
    \/ \E ok \in BOOLEAN, msg \in MsgLens : set_session_cookie(ok, msg)
    \/ \E ok \in BOOLEAN, msg \in MsgLens : goto_home(ok, msg)
    \/ \E how \in {"success", "not_ok", "raises"} : evaluate_user_self(how)
    \/ \E ok \in BOOLEAN : wait_for_selector(ok)
    \/ \E how \in {"absent", "query_raises", "act_raises", "acted"} : try_selector(how)
    \/ \E ok \in BOOLEAN, msg \in MsgLens : press_enter(ok, msg)
    \/ \E ok \in BOOLEAN, url \in Urls \cup {<< >>} : wait_for_console_url(ok, url)
    \/ \E how \in {"raises", "text"}, len \in MsgLens : scrape_error(how, len)
    \/ \E ok \in BOOLEAN, msg \in MsgLens : settle(ok, msg)
    \/ \E avail \in BOOLEAN : check_chrome_debug_port(avail)
    \/ \E ok \in BOOLEAN : mkdir_profile(ok)
    \/ \E how \in {"connect_raises", "contexts", "no_contexts", "launch_raises",
                    "launched"}, msg \in MsgLens : acquire_session(how, msg)
    \/ \E ok \in BOOLEAN, msg \in MsgLens : new_context(ok, msg)
    \/ \E url \in Urls : check_logged_in(url)
    \/ \E ok \in BOOLEAN, url \in OAuthUrls \cup {<< >>} : wait_for_oauth(ok, url)
    \/ \E ok \in BOOLEAN : wait_for_oauth_again(ok)
    \/ \E ok \in BOOLEAN, kind \in HttpFaults, msg \in MsgLens :
          client_open(ok, kind, msg)
    \/ \E ok \in BOOLEAN, st \in Statuses, url \in Urls, kind \in HttpFaults,
          msg \in MsgLens : get_login(ok, st, url, kind, msg)
    \/ \E ok \in BOOLEAN, st \in Statuses, kind \in HttpFaults, msg \in MsgLens :
          get_user_self(ok, st, kind, msg)
    \/ \E ok \in BOOLEAN, kind \in HttpFaults, msg \in MsgLens :
          client_close(ok, kind, msg)
    \/ \E ok \in BOOLEAN : finally_close_context(ok)
    \/ \E removed \in BOOLEAN : finally_rmtree(removed)
    \/ \E ok \in BOOLEAN : finally_oauth(ok)
    \/ \E m \in Methods, u \in RequestUrls : page_request(m, u)

StrategySpec == Init /\ [][StrategyNext]_vars

(***************************************************************************)
(* The request recorder alone: the function _create_api_logger returns,    *)
(* called with any sequence of requests.                                   *)
(***************************************************************************)
logger_call(method, url) ==
    /\ nreq < MaxObserved
    /\ Observed(method, url)
    /\ UNCHANGED <<args_vars, cdp_available, use_cdp, context, temp_dir, page,
                   waf_cookies, sel_i, current_url, ctx_state, ctx_origin,
                   page_state, dir_state, client_state, jar, listening, closes,
                   exit_vars, pending, faults, pc, trail, cache_vars, sess_vars>>

LoggerNext == \E m \in Methods, u \in RequestUrls : logger_call(m, u)

LoggerSpec == Init /\ [][LoggerNext]_vars

(***************************************************************************)
(* The sessions of concurrent invocations: what each function acquires at  *)
(* its start and holds until its `finally` (or the end of `async with`).   *)
(* Objects are numbers; a call that creates an object yields a new number. *)
(***************************************************************************)
\* The invocation `i` of function `fn` holds the given session from now on.
Hold(i, fn, ctx, dir, client) ==
    /\ inv_pc' = [inv_pc EXCEPT ![i] = "held"]
    /\ inv_fn' = [inv_fn EXCEPT ![i] = fn]
    /\ inv_context' = [inv_context EXCEPT ![i] = ctx]
    /\ inv_dir' = [inv_dir EXCEPT ![i] = dir]
    /\ inv_client' = [inv_client EXCEPT ![i] = client]

\* _create_stealth_context: tempfile.mkdtemp() makes a new directory and
\* launch_persistent_context a new context on it.
session_stealth(i, fn) ==
    /\ inv_pc[i] = "idle"
    /\ fn \in StealthStrategies
    /\ next_obj + 1 <= MaxObjects
    /\ Hold(i, fn, next_obj, next_obj + 1, NoObject)
    /\ next_obj' = next_obj + 2
    /\ UNCHANGED <<cache_vars, strat_vars>>

\* perform_oauth_signin_with_chrome with the debug port open:
\* connect_over_cdp, then contexts[0] of the attached browser, or a context
\* made by browser.new_context() when it has none.
session_oauth_cdp(i, has_contexts) ==
    /\ inv_pc[i] = "idle"
    /\ IF has_contexts
       THEN /\ Hold(i, "oauth", DefaultContext, NoObject, NoObject)
            /\ UNCHANGED next_obj
       ELSE /\ next_obj <= MaxObjects
            /\ Hold(i, "oauth", next_obj, NoObject, NoObject)
            /\ next_obj' = next_obj + 1
    /\ UNCHANGED <<cache_vars, strat_vars>>

\* perform_oauth_signin_with_chrome with the debug port closed:
\* launch_persistent_context(user_data_dir=str(PLAYWRIGHT_USER_DATA_DIR)),
\* which makes a new context on the one profile directory, or raises.
session_oauth_launch(i, ok) ==
    /\ inv_pc[i] = "idle"
    /\ IF ok
       THEN /\ next_obj <= MaxObjects
            /\ Hold(i, "oauth", next_obj, ProfileDir, NoObject)
            /\ next_obj' = next_obj + 1
       ELSE /\ inv_pc' = [inv_pc EXCEPT ![i] = "over"]
            /\ inv_fn' = [inv_fn EXCEPT ![i] = "oauth"]
            /\ UNCHANGED <<inv_context, inv_dir, inv_client, next_obj>>
    /\ UNCHANGED <<cache_vars, strat_vars>>

\* trigger_signin_via_http: httpx.AsyncClient(...) makes a new client.
session_http(i) ==
    /\ inv_pc[i] = "idle"
    /\ next_obj <= MaxObjects
    /\ Hold(i, "http", NoObject, NoObject, next_obj)
    /\ next_obj' = next_obj + 1
    /\ UNCHANGED <<cache_vars, strat_vars>>

\* The invocation leaves its `finally` or its `async with`: it uses its
\* session no longer.
session_over(i) ==
    /\ inv_pc[i] = "held"
    /\ inv_pc' = [inv_pc EXCEPT ![i] = "over"]
    /\ UNCHANGED <<inv_fn, inv_context, inv_dir, inv_client, next_obj>>
    /\ UNCHANGED <<cache_vars, strat_vars>>

\* The caller starts another invocation.
session_again(i) ==
    /\ inv_pc[i] = "over"
    /\ inv_pc' = [inv_pc EXCEPT ![i] = "idle"]
    /\ inv_fn' = [inv_fn EXCEPT ![i] = "none"]
    /\ inv_context' = [inv_context EXCEPT ![i] = NoObject]
    /\ inv_dir' = [inv_dir EXCEPT ![i] = NoObject]
    /\ inv_client' = [inv_client EXCEPT ![i] = NoObject]
    /\ UNCHANGED next_obj
    /\ UNCHANGED <<cache_vars, strat_vars>>

SessionNext ==
    \/ \E i \in Invocations, fn \in StealthStrategies : session_stealth(i, fn)
    \/ \E i \in Invocations, has_contexts \in BOOLEAN : session_oauth_cdp(i, has_contexts)
    \/ \E i \in Invocations, ok \in BOOLEAN : session_oauth_launch(i, ok)
    \/ \E i \in Invocations : session_http(i)
    \/ \E i \in Invocations : session_over(i)
    \/ \E i \in Invocations : session_again(i)

SessionSpec == Init /\ [][SessionNext]_vars

(***************************************************************************)
(* Properties of the strategies.                                           *)
(***************************************************************************)
FourStrategies == {"cookie_replay", "real_login", "oauth", "http"}

Ended == pc = "ended"

\* how often the release call `name` was made
Count(name) == Cardinality({i \in DOMAIN closes : closes[i] = name})

Teardowns == {"context.close", "page.close", "client.aclose"}

TeardownCount == Cardinality({i \in DOMAIN closes : closes[i] \in Teardowns})

\* the teardown that belongs to the session of the invocation
SessionTeardown ==
    CASE strategy = "http" -> "client.aclose"
      [] use_cdp -> "page.close"
      [] OTHER -> "context.close"

\* the awaited calls on the page
PageSteps == {"goto_login", "wait_load_timeout", "harvest", "wait_cookie",
              "goto_home", "press_enter", "scrape_error", "settle"}

\* C3 (as stated): every successful BrowserResult returned by one of the four
\* strategies carries a cookie map with every name of required_cookies.
C3_SuccessHasAllRequired ==
    (Ended /\ strategy \in FourStrategies /\ outcome = "returned" /\ result.success)
        => HasAll(result.waf_cookies, required_cookies)

\* C5: the session teardown (context.close of a launched context, page.close
\* of an attached browser, the close of the HTTP client) is never executed
\* twice, and once the page exists (or the HTTP client is open) it has been
\* executed exactly once when the invocation has ended, whichever step of
\* the page raised.
C5_TeardownExactlyOnce ==
    /\ TeardownCount <= 1
    /\ (Ended /\ (page = "bound" \/ client_state # "none"))
          => (Count(SessionTeardown) = 1 /\ TeardownCount = 1)

\* C5 witness: an invocation ended after a step of the page raised, with its
\* context closed once
C5_Witness ==
    /\ Ended
    /\ strategy = "real_login"
    /\ faults \cap PageSteps # {}
    /\ closes = <<"context.close", "rmtree">>

\* C6 (as stated): every invocation of the four strategies ends by returning,
\* and with a fault at any step the result is a failure with a non-empty error.
C6_AlwaysReturnsFailureResult ==
    (Ended /\ strategy \in FourStrategies)
        => /\ outcome = "returned"
           /\ faults # {} => (~result.success /\ result.error.len > 0)

\* C7 (as stated): a temporary profile directory that _create_stealth_context
\* made has had its removal attempted when the invocation has ended.
C7_TempDirRemovalAttempted ==
    (Ended /\ strategy \in StealthStrategies /\ dir_state # "none")
        => Count("rmtree") = 1

\* C8 (as stated): the result computed before the cleanup began is the one
\* returned, whatever fails during the cleanup.
C8_CleanupKeepsResult ==
    (Ended /\ strategy \in {"cookie_replay", "real_login", "oauth"}
           /\ pending.kind = "return")
        => (outcome = "returned" /\ result = pending.res)

\* C9 (as stated): in perform_oauth_signin_with_chrome an attached browser
\* has only the page closed, a launched profile has its context closed, and
\* after the invocation has returned nothing that it created is still open
\* (checked on the invocations whose close calls all went through).
C9_OAuthCleanupLeavesNothingOpen ==
    (Ended /\ strategy = "oauth" /\ outcome = "returned"
           /\ (Count("page.close") = 1 => page_state = "closed"))
        => /\ use_cdp => Count("context.close") = 0
           /\ (~use_cdp /\ context = "bound") => Count("context.close") = 1
           /\ page_state # "open"
           /\ ctx_origin \in {"launched", "cdp_created"} => ctx_state # "open"

\* C10 (amended): with the first GET answered, trigger_signin_via_http returns
\* success when the lower-cased final URL has no '/login', the second GET is
\* answered (with any status) and the client closes; it returns a failure
\* when the second GET raises; it returns the session-expired failure when
\* the lower-cased final URL has '/login' and the client closes.
C10_HttpOutcomeByFinalUrl ==
    (Ended /\ strategy = "http" /\ current_url # << >>)
        => LET on_login == Contains(Lower(current_url), SlashLogin)
           IN  /\ (~on_login /\ faults = {})
                    => (result.success /\ Len(result.api_calls) = 2)
               /\ (~on_login /\ "get_self" \in faults) => ~result.success
               /\ (on_login /\ faults = {})
                    => (~result.success /\ result.error = SessionExpired)

\* C10 witness: success after a second GET answered with status 401
C10_Witness ==
    /\ Ended
    /\ strategy = "http"
    /\ result.success
    /\ Len(result.api_calls) = 2
    /\ result.api_calls[2].tag = "401"

\* C10 (as stated): success whenever the final URL contains no '/login',
\* whatever the second GET does, and the session-expired failure whenever
\* it contains '/login' (checked on the invocations whose client closed).
C10_SuccessWheneverRedirected ==
    (Ended /\ strategy = "http" /\ current_url # << >>
           /\ "client.aclose" \notin faults)
        => IF ~Contains(current_url, SlashLogin)
           THEN result.success
           ELSE ~result.success /\ result.error = SessionExpired

\* the position or mark `m` is in the trail of the invocation
InTrail(m) == \E i \in DOMAIN trail : trail[i] = m

\* the position `a` was reached, and before the position `b` if that was reached
Before(a, b) ==
    /\ InTrail(a)
    /\ \A i, j \in DOMAIN trail : (trail[i] = a /\ trail[j] = b) => i < j

\* the invocation is in its `finally` or has ended
Leaving == pc \in {"finally", "finally_rmtree", "ended"}

\* C11: in perform_real_login_signin, once the username loop is over without
\* any selector having matched, the pending (and returned) result is the
\* failure with the username-field error, no password selector was queried,
\* nothing was filled and nothing submitted; once the password loop is over
\* after a filled username without any password selector having matched, it
\* is the failure with the password-field error and nothing was submitted.
C11_MissingFieldEndsLogin ==
    strategy = "real_login" =>
        /\ (InTrail("username") /\ pc # "username" /\ ~InTrail("username_matched"))
              => /\ Leaving
                 /\ pending = PendingReturn(BrowserResult(FALSE, waf_cookies,
                                                          api_calls, UsernameNotFound))
                 /\ (Ended /\ outcome = "returned") => result = pending.res
                 /\ \A m \in {"password", "password_matched", "submit",
                               "submit_matched", "press_enter", "wait_url"} :
                        ~InTrail(m)
        /\ (InTrail("password") /\ pc # "password" /\ ~InTrail("password_matched"))
              => /\ Leaving
                 /\ InTrail("username_matched")
                 /\ pending = PendingReturn(BrowserResult(FALSE, waf_cookies,
                                                          api_calls, PasswordNotFound))
                 /\ (Ended /\ outcome = "returned") => result = pending.res
                 /\ \A m \in {"submit", "submit_matched", "press_enter",
                               "wait_url"} : ~InTrail(m)

\* C11 witness: a login returned the password-field error after the username
\* was filled
C11_Witness ==
    /\ Ended
    /\ strategy = "real_login"
    /\ outcome = "returned"
    /\ InTrail("username_matched")
    /\ ~InTrail("password_matched")
    /\ result.error = PasswordNotFound

\* api_calls has an entry for /api/user/self
HasUserSelf(calls) ==
    \E i \in DOMAIN calls : calls[i].url = <<"/", "a", "p", "i", "/", "u">>

\* C12 (amended): a run of get_waf_cookies_and_trigger_signin that harvested
\* every required cookie, in which no awaited call raised and which
\* returned, has success = true and waf_cookies with exactly the required
\* names; api_calls has an entry for /api/user/self when the in-page fetch
\* reported success.
C12_ReplaySucceedsWithRequiredCookies ==
    (Ended /\ strategy = "cookie_replay" /\ outcome = "returned"
           /\ InTrail("clear_cookies") /\ faults = {})
        => /\ result.success
           /\ DOMAIN result.waf_cookies = required_cookies
           /\ InTrail("fetch_ok") => HasUserSelf(result.api_calls)

\* C12 witness: a successful replay with two required cookies and the entry
\* of the in-page fetch
C12_Witness ==
    /\ Ended
    /\ strategy = "cookie_replay"
    /\ required_cookies = {"waf_a", "waf_b"}
    /\ result.success
    /\ InTrail("fetch_ok")
    /\ HasUserSelf(result.api_calls)

\* C12 (as stated): all required cookies harvested, the session cookie
\* injected and the site root visited (no call raising) give success = true,
\* exactly the required names, and an entry for /api/user/self.
C12_ReplayAlwaysLogsUserSelf ==
    (Ended /\ strategy = "cookie_replay" /\ outcome = "returned"
           /\ InTrail("evaluate") /\ faults = {})
        => /\ result.success
           /\ DOMAIN result.waf_cookies = required_cookies
           /\ HasUserSelf(result.api_calls)

\* the positions of get_waf_cookies_and_trigger_signin after the harvest
AfterHarvest == {"clear_cookies", "wait_cookie", "set_session", "goto_home",
                 "evaluate", "settle"}

\* C13: in get_waf_cookies_and_trigger_signin, once the harvest has returned
\* a map that lacks a required name, the function is on its way out with the
\* missing-WAF-cookies failure, none of the later steps was reached (the jar
\* is not cleared, no session cookie is in it, no listener is attached), and
\* when the invocation has ended the context was closed once.
C13_MissingCookiesStopReplay ==
    (strategy = "cookie_replay" /\ InTrail("harvest") /\ pc # "harvest"
        /\ "harvest" \notin faults /\ ~HasAll(waf_cookies, required_cookies))
        => /\ Leaving
           /\ pending = PendingReturn(BrowserResult(FALSE, EmptyDict, << >>,
                            MissingError(required_cookies \ DOMAIN waf_cookies)))
           /\ \A m \in AfterHarvest \cup {"fetch_ok"} : ~InTrail(m)
           /\ "session" \notin DOMAIN jar
           /\ ~listening
           /\ Ended => /\ Count("context.close") = 1
                       /\ outcome = "returned" => result = pending.res

\* C13 witness: a replay returned the missing-WAF-cookies failure after its
\* context was closed
C13_Witness ==
    /\ Ended
    /\ strategy = "cookie_replay"
    /\ outcome = "returned"
    /\ result.error.kind = "missing_waf"
    /\ closes = <<"context.close", "rmtree">>

\* C14 (as stated): two invocations that hold their sessions at the same
\* time never use the same browser context, the same profile directory or
\* the same HTTP client.
C14_SessionsAreDisjoint ==
    \A i, j \in Invocations :
        (i # j /\ inv_pc[i] = "held" /\ inv_pc[j] = "held")
            => /\ inv_context[i] # NoObject => inv_context[i] # inv_context[j]
               /\ inv_dir[i] # NoObject => inv_dir[i] # inv_dir[j]
               /\ inv_client[i] # NoObject => inv_client[i] # inv_client[j]

\* C15 (as stated): when the wait for the console URL of
\* perform_real_login_signin has expired (and no later call raised), the
\* result is a failure if the current URL has 'login' in it and a success
\* otherwise.
C15_TimeoutOnLoginPageFails ==
    (Ended /\ strategy = "real_login" /\ outcome = "returned"
           /\ current_url # << >> /\ faults = {})
        => IF Contains(Lower(current_url), LoginWord)
           THEN ~result.success
           ELSE result.success

\* the positions at which the function awaits a bounded wait
WaitPositions == {"wait_load", "wait_load_timeout", "wait_selector", "wait_cookie",
                  "wait_url", "wait_oauth", "wait_oauth_again", "settle"}

\* C16 (as stated): a bounded wait that expires without an exception reaching
\* the handler never ends the strategy with a failure: no step taken at a
\* wait leaves the function with a result that has success = false.
C16_WaitExpiryNeverFails ==
    [][(pc \in WaitPositions /\ pc' = "finally" /\ faults' = faults)
          => pending'.res.success]_vars

\* C17: in get_waf_cookies_and_trigger_signin, whatever the in-page fetch
\* did (success, a response that is not OK, an exception of evaluate), the
\* function went on to the settle wait, and unless the settle wait raised it
\* leaves with success = true and the harvested waf_cookies, which is what
\* it returns.
C17_FetchOutcomeIsNotFatal ==
    (strategy = "cookie_replay" /\ InTrail("evaluate") /\ pc # "evaluate")
        => /\ InTrail("settle")
           /\ "evaluate" \notin faults
           /\ pc = "settle" \/ Leaving
           /\ (Leaving /\ "settle" \notin faults)
                 => pending = PendingReturn(BrowserResult(TRUE, waf_cookies,
                                                         api_calls, NoError))
           /\ (Ended /\ outcome = "returned" /\ "settle" \notin faults)
                 => (result.success /\ result.waf_cookies = waf_cookies
                       /\ DOMAIN waf_cookies = required_cookies)

\* C17 witness: a replay returned success although its in-page fetch did not
\* report success
C17_Witness ==
    /\ Ended
    /\ strategy = "cookie_replay"
    /\ outcome = "returned"
    /\ InTrail("evaluate")
    /\ ~InTrail("fetch_ok")
    /\ required_cookies = {"waf_a"}
    /\ result.success
    /\ result.api_calls = << >>

\* the steps of get_waf_cookies_and_trigger_signin, in the order of the code
ReplaySteps == <<"harvest", "clear_cookies", "set_session", "goto_home",
                 "evaluate", "settle">>

\* C18: every run of get_waf_cookies_and_trigger_signin that returned success
\* reached harvest, clear, injection, root navigation, fetch and settle wait
\* in this order; the injection is never reached before the clear; and the
\* harvested waf_cookies, taken from the jar at the harvest, are not changed
\* by any later step and are the ones returned.
C18_ReplayStepsInOrder ==
    /\ [](strategy = "cookie_replay" =>
            /\ InTrail("set_session") => Before("clear_cookies", "set_session")
            /\ (Ended /\ outcome = "returned" /\ result.success)
                  => /\ \A k \in 1..(Len(ReplaySteps) - 1) :
                           /\ Before(ReplaySteps[k], ReplaySteps[k + 1])
                           /\ InTrail(ReplaySteps[k + 1])
                     /\ result.waf_cookies = waf_cookies)
    /\ [][strategy = "cookie_replay" =>
            /\ (pc = "harvest" /\ pc' = "clear_cookies")
                  => waf_cookies' = get_waf_cookies(jar, required_cookies)
            /\ pc \in AfterHarvest \cup {"finally", "finally_rmtree"}
                  => waf_cookies' = waf_cookies]_vars

\* C18 witness: a replay returned success with both required cookies while
\* the jar holds nothing but the injected session cookie
C18_Witness ==
    /\ Ended
    /\ strategy = "cookie_replay"
    /\ outcome = "returned"
    /\ result.success
    /\ DOMAIN result.waf_cookies = {"waf_a", "waf_b"}
    /\ jar = SessionCookie

(***************************************************************************)
(* Further properties of the cache.                                        *)
(***************************************************************************)
\* the callers whose browser extraction is in flight
Extracting == {c \in Callers : cpc[c] = "extracting"}

\* C19: at most one caller is inside the region of get_cached_waf_cookies:
\* at most one extraction is in flight, whatever the domains, its caller
\* holds the lock, and no caller performs its cache check (leaving "idle" or
\* "waiting" for the extraction or the return) while another caller's
\* extraction is in flight.
C19_OneCallerInRegion ==
    /\ [](/\ Cardinality(Extracting) <= 1
          /\ \A c \in Extracting : lock_holder = c)
    /\ [][\A c \in Callers :
            (cpc[c] \in {"idle", "waiting"} /\ cpc'[c] \in {"extracting", "done"})
                => \A o \in Callers \ {c} : cpc[o] # "extracting"]_vars

\* C19 witness: a caller for d2 waits while the population for d1 runs
C19_Witness ==
    \E c, o \in Callers :
        /\ cpc[c] = "extracting"
        /\ cdom[c] = "d1"
        /\ cpc[o] = "waiting"
        /\ cdom[o] = "d2"

\* the step is the cache check of caller c
ChecksCache(c) ==
    cpc[c] \in {"idle", "waiting"} /\ cpc'[c] \in {"extracting", "done"}

\* the step is the return of caller c's extraction with a map
EndsExtraction(c) ==
    cpc[c] = "extracting" /\ cpc'[c] = "done" /\ IsDict(cgot'[c])

\* the cache after the step has the map m for the domain of c and is
\* otherwise what it was
Replaced(c, m) ==
    waf_cookie_cache' = [waf_cookie_cache EXCEPT ![cdom[c]] = Some(m)]

\* the cache check of c hits if and only if the entry of its domain exists
\* and has every required name; a hit returns the entry, starts no
\* extraction and leaves the cache alone, a miss starts the extraction
CheckIsExact(c) ==
    LET entry == waf_cookie_cache[cdom'[c]]
        hit == IsDict(entry) /\ creq'[c] \subseteq DOMAIN entry.map
    IN  IF hit
        THEN /\ cpc'[c] = "done"
             /\ cret'[c] = entry
             /\ ~did_extract'[c]
             /\ waf_cookie_cache' = waf_cookie_cache
        ELSE /\ cpc'[c] = "extracting"
             /\ did_extract'[c]

\* C20 (amended): the cache check is exact, and an extraction that returns a
\* non-empty map with every required name replaces the entry of its domain
\* by exactly that map, all other entries staying; any other extraction
\* leaves the cache as it was.
C20_HitIffCompleteEntryElseReplace ==
    [][\A c \in Callers :
         /\ ChecksCache(c) => CheckIsExact(c)
         /\ EndsExtraction(c) =>
               LET m == cgot'[c].map
               IN  IF creq[c] \subseteq DOMAIN m /\ m # EmptyDict
                   THEN Replaced(c, m) /\ cret'[c] = Some(m)
                   ELSE waf_cookie_cache' = waf_cookie_cache]_vars

\* C20 witness: the entry {waf_a} of d1, returned to an earlier call, has
\* been replaced by the map {waf_b} of a later extraction
C20_Witness ==
    \E c, o \in Callers :
        /\ ~cleared
        /\ cpc[c] = "done" /\ cpc[o] = "done"
        /\ cdom[c] = "d1" /\ cdom[o] = "d1"
        /\ start_no[o] < start_no[c]
        /\ IsDict(cret[o]) /\ DOMAIN cret[o].map = {"waf_a"}
        /\ did_extract[c]
        /\ IsDict(cret[c]) /\ DOMAIN cret[c].map = {"waf_b"}
        /\ waf_cookie_cache["d1"] = cret[c]

\* C20 (as stated): the cache check is exact, and every extraction that
\* returns a map with every required name replaces the entry of its domain.
C20_EveryCompleteExtractionStored ==
    [][\A c \in Callers :
         /\ ChecksCache(c) => CheckIsExact(c)
         /\ EndsExtraction(c) =>
               LET m == cgot'[c].map
               IN  IF creq[c] \subseteq DOMAIN m
                   THEN Replaced(c, m) /\ cret'[c] = Some(m)
                   ELSE waf_cookie_cache' = waf_cookie_cache]_vars

(***************************************************************************)
(* Properties of the request recorder.                                     *)
(***************************************************************************)
\* the entries a sequence of requests leaves: one for each request whose URL
\* contains '/api/', in the order of the requests
RECURSIVE Entries(_)
Entries(reqs) ==
    IF reqs = << >> THEN << >>
    ELSE LET r == reqs[Len(reqs)]
             before == Entries(SubSeq(reqs, 1, Len(reqs) - 1))
         IN  IF \E i \in 1..(Len(r.url) - 4) :
                    /\ r.url[i] = "/" /\ r.url[i + 1] = "a" /\ r.url[i + 2] = "p"
                    /\ r.url[i + 3] = "i" /\ r.url[i + 4] = "/"
             THEN Append(before, [method |-> r.method, url |-> r.url, tag |-> "request"])
             ELSE before

\* C21: the log holds one entry '<METHOD> <URL>' for each observed request
\* whose URL contains '/api/' and none for the others, in the order of
\* observation and with repetitions kept, and a step never removes or
\* changes an entry the log already has.
C21_LogIsAppendOnlyInOrder ==
    /\ [](api_calls = Entries(seen))
    /\ [][/\ Len(api_calls') >= Len(api_calls)
          /\ SubSeq(api_calls', 1, Len(api_calls)) = api_calls]_vars

\* C21 witness: the same request to '/api/' observed twice with another
\* request between them has left two equal entries and nothing else
C21_Witness ==
    /\ Len(seen) = 3
    /\ seen[1] = seen[3]
    /\ Contains(seen[1].url, SlashApi)
    /\ ~Contains(seen[2].url, SlashApi)
    /\ Len(api_calls) = 2
    /\ api_calls[1] = api_calls[2]

(***************************************************************************)
(* Further properties of the strategies.                                   *)
(***************************************************************************)
\* the strategies that drive a browser page
BrowserDriven == {"cookie_replay", "real_login", "oauth"}

\* the positions inside the `finally` of a browser strategy
FinallyPositions == {"finally", "finally_rmtree"}

\* the release calls `cl` have the close of what the invocation holds: its
\* page in an attached browser, else its context
CleanupCalled(cl) ==
    IF use_cdp
    THEN page = "bound" => \E i \in DOMAIN cl : cl[i] = "page.close"
    ELSE \E i \in DOMAIN cl : cl[i] = "context.close"

\* C22: in the three browser-driven strategies a successful result is
\* produced only by the step that has executed the settle wait; the settle
\* wait is reached only with the session acquired (the context bound, the
\* page created) and after the navigation to the login page; and an
\* invocation that returns a failure comes out of its `finally`, which has
\* called the close of the session when the invocation holds one.
C22_SettleBeforeSuccessCleanupAfterFailure ==
    /\ []((strategy \in BrowserDriven /\ pending.kind = "return"
             /\ pending.res.success)
           => (InTrail("settle") /\ "settle" \notin faults))
    /\ []((strategy \in BrowserDriven /\ InTrail("settle"))
           => /\ context = "bound" /\ page = "bound"
              /\ Before("new_page", "goto_login")
              /\ Before("goto_login", "settle"))
    /\ [][/\ (strategy \in BrowserDriven /\ pending' # pending
              /\ pending'.kind = "return" /\ pending'.res.success)
                 => (pc = "settle" /\ pc' = "finally")
          /\ (strategy \in BrowserDriven /\ pc # "ended" /\ pc' = "ended"
              /\ outcome' = "returned" /\ ~result'.success)
                 => /\ pc \in FinallyPositions
                    /\ context = "bound" => CleanupCalled(closes')]_vars

\* C22 witness: the OAuth function found itself logged in on the login
\* navigation, waited, returned success and closed its context
C22_Witness ==
    /\ Ended /\ strategy = "oauth" /\ outcome = "returned" /\ result.success
    /\ InTrail("settle") /\ ~InTrail("oauth_button")
    /\ closes = <<"context.close">>

\* the step queries the selector the loop stands at
QueriesSelector ==
    pc \in SelectorLoops /\ (pc' # pc \/ sel_i' # sel_i)

\* C23 (as stated): the selectors of a loop are queried in list order, one
\* after the other, and once a selector has matched an element no later
\* selector of the loop is queried, also when the fill or click on the
\* matched element raised.
C23_FirstMatchWins ==
    [][QueriesSelector =>
          /\ ~InTrail(Matched(pc))
          /\ pc' = pc => sel_i' = sel_i + 1]_vars

\* C24 (as stated): the error of every failure result is no longer than a
\* constant that is the same for all inputs, the longest text the
\* truncations of the code let through (ErrorMsgLimit characters); also the
\* missing-WAF-cookies error of a long list of required names.
C24_ErrorLengthBounded ==
    (Ended /\ strategy \in FourStrategies /\ outcome = "returned"
       /\ ~result.success)
        => result.error.len <= ErrorMsgLimit

(***************************************************************************)
(* Release of the cache lock.                                              *)
(***************************************************************************)
\* C25: the lock is held only by a caller inside its extraction; a call
\* that comes to its end (hit, stored or incomplete extraction, exception)
\* leaves the lock free; an extraction that raises leaves the cache as it
\* was; and with a fair event loop and terminating extractions every caller
\* waiting for the lock enters the region and every call begun returns or
\* raises.
C25_LockReleasedOnEveryExit ==
    /\ [](\A c \in Callers : lock_holder = c => cpc[c] = "extracting")
    /\ [][\A c \in Callers :
            /\ (cpc[c] # "done" /\ cpc'[c] = "done") => lock_holder' = 0
            /\ (cret[c] # Raised /\ cret'[c] = Raised)
                  => waf_cookie_cache' = waf_cookie_cache]_vars
    /\ \A c \in Callers :
          /\ (cpc[c] = "waiting") ~> (cpc[c] \in {"extracting", "done"})
          /\ (cpc[c] \in {"waiting", "extracting"}) ~> (cpc[c] = "done")

\* C25 witness: a call that began while another was extracting (and so
\* waited for the lock) has extracted and returned after the extraction of
\* the other raised
C25_Witness ==
    \E c, o \in Callers :
        /\ cpc[c] = "done" /\ cret[c] = Raised
        /\ cpc[o] = "done" /\ c \in active_at_start[o]
        /\ did_extract[o] /\ IsDict(cret[o])

====
